---- MODULE Spec2Model ----
(***************************************************************************)
(* ConsumeFromTopicOperator (kafka_provider/operators/consume_from_topic)  *)
(* as a state machine: construction (__init__), then execute() stepped at  *)
(* each call on the Consumer and each application of apply_function.       *)
(*                                                                         *)
(* Python values are records [tag, n, s] so that None, bool, int and str   *)
(* keep their type: True is a bool whose numeric value is 1, and           *)
(* arithmetic on it gives an int, as in Python.                            *)
(***************************************************************************)
EXTENDS Integers, Sequences, FiniteSets, TLC

\* ---- bounds of the model ----
MaxM == 5        \* largest finite max_messages tried
MaxB == 3        \* largest max_batch_size tried
MaxRuns == 2     \* execute() calls on one operator object

\* ---- Python values ----
PyNone == [tag |-> "None", n |-> 0, s |-> ""]
PyTrue == [tag |-> "bool", n |-> 1, s |-> ""]
PyInt(i) == [tag |-> "int", n |-> i, s |-> ""]
PyStr(x) == [tag |-> "str", n |-> 0, s |-> x]

\* bool(v)
Truthy(v) ==
  CASE v.tag = "None" -> FALSE
    [] v.tag = "bool" -> v.n # 0
    [] v.tag = "int"  -> v.n # 0
    [] v.tag = "str"  -> v.s # ""

\* isinstance(v, bool)
IsInstanceBool(v) == v.tag = "bool"

\* a == b on bool and int operands (True == 1)
PyEq(a, b) == a.tag \in {"bool", "int"} /\ b.tag \in {"bool", "int"} /\ a.n = b.n

VALID_COMMIT_CADENCE == {PyStr("never"), PyStr("end_of_batch"), PyStr("end_of_operator")}

\* ---- inputs the constructor is tried with ----
CadenceArgs == VALID_COMMIT_CADENCE \cup {PyStr("bogus"), PyNone}
MaxMessagesArgs == {PyNone} \cup {PyInt(i) : i \in (0..MaxM) \cup {-1}}
MaxBatchSizeArgs == 0..MaxB

\* ---- __init__ ----
\* max_messages or True
MaxMessagesOrTrue(m) == IF Truthy(m) THEN m ELSE PyTrue

\* variant: a missing cadence (None) passes the membership test
CadenceRejected_NoneAccepted(c) == c \notin VALID_COMMIT_CADENCE /\ c # PyNone

\* commit_cadence not in VALID_COMMIT_CADENCE
CadenceRejected(c) == c \notin VALID_COMMIT_CADENCE

\* if self.max_messages and self.max_batch_size > self.max_messages: warn
WarnsBatchLarger(mm, b) == Truthy(mm) /\ b > mm.n

\* variant: the warning branch assigns what its message announces
InitMaxMessages_Raised(m, b) ==
  IF Truthy(MaxMessagesOrTrue(m)) /\ b > MaxMessagesOrTrue(m).n THEN PyInt(b) ELSE MaxMessagesOrTrue(m)

\* the value of self.max_messages when __init__ returns (the warning assigns nothing)
InitMaxMessages(m, b) == MaxMessagesOrTrue(m)

\* variant: "never" is left as the string
NormalizeCadence_Kept(c) == c

\* if self.commit_cadence == "never": self.commit_cadence = None
NormalizeCadence(c) == IF c = PyStr("never") THEN PyNone ELSE c

\* variant: the loop test admits 0
LoopCond_NonNegative(left) == left.n >= 0

\* variant: the loop tests truthiness (while messages_left)
LoopCond_NonZero(left) == left.n # 0

\* ---- execute ----
\* while messages_left > 0
LoopCond(left) == left.n > 0

\* variant: the request is not capped by messages_left
BatchSize_Uncapped(left, b) == b

\* lines 77-80
BatchSize(left, b) ==
  IF ~IsInstanceBool(left)
    THEN (IF left.n > b THEN b ELSE left.n)
    ELSE b

\* variant: an empty poll is counted as one message
Decrement_EmptyCounts(left, k) == PyInt(left.n - (IF k = 0 THEN 1 ELSE k))

\* variant: one is subtracted per batch instead of per message
Decrement_PerBatch(left, k) == PyInt(left.n - (IF k = 0 THEN 0 ELSE 1))

\* messages_left -= len(msgs)
Decrement(left, k) == PyInt(left.n - k)

\* variants: the in-loop commit tests truthiness / any committing cadence
CommitsInLoop_Truthy(c) == Truthy(c)
CommitsInLoop_AnyCommitting(c) == c \in {PyStr("end_of_batch"), PyStr("end_of_operator")}

\* if self.commit_cadence == "end_of_batch"
CommitsInLoop(c) == c = PyStr("end_of_batch")

\* variant: the final commit only for end_of_operator
CommitsAtDrain_OperatorOnly(c) == c = PyStr("end_of_operator")

\* variant: the in-loop commit is taken inside the for loop, after the first message
AfterApply_CommitInsideFor(i, n, c) ==
  IF CommitsInLoop(c) THEN "batch_commit"
  ELSE IF i < n THEN "apply" ELSE "while"

\* variant: the for loop stops one message short
AfterApply_StopsShort(i, n, c) ==
  IF i + 1 < n THEN "apply"
  ELSE IF CommitsInLoop(c) THEN "batch_commit"
  ELSE "while"

\* lines 90-93: where execute goes after applying message i of a batch of n:
\* the next message, the end-of-batch commit, or the loop test
AfterApply(i, n, c) ==
  IF i < n THEN "apply"
  ELSE IF CommitsInLoop(c) THEN "batch_commit"
  ELSE "while"

\* variant: a failed consume() is taken for the end of the log
OnConsumerError_PollSwallowed(op) == IF op = "poll" THEN "drain" ELSE "raised"

\* lines 82, 95, 99, 101: no try/except around the Consumer calls, so an
\* exception of poll, commit or close leaves execute
OnConsumerError(op) == "raised"

\* variant: the counter is set up once on the operator and carried from run to run
StartMessagesLeft_Carried(mm, prev) == IF prev.tag = "None" THEN mm ELSE prev

\* line 72: messages_left = self.max_messages, a local set at every call of
\* execute (prev is the value the previous call left behind)
StartMessagesLeft(mm, prev) == mm

\* variant: no commit after the loop
CommitsAtDrain_Never(c) == FALSE

\* if self.commit_cadence
CommitsAtDrain(c) == Truthy(c)

VARIABLES
  pc,                  \* position: init, config_error, ready, while, poll, apply, batch_commit, drain, close, done, raised
  commit_cadence_arg,  \* constructor argument commit_cadence
  max_messages_arg,    \* constructor argument max_messages
  max_batch_size_arg,  \* constructor argument max_batch_size
  commit_cadence,      \* self.commit_cadence
  max_messages,        \* self.max_messages
  max_batch_size,      \* self.max_batch_size
  warned,              \* self.log.warn was called by __init__
  messages_left,       \* local of execute
  messages_processed,  \* local of execute
  batch_size,          \* local of execute
  msgs,                \* the batch returned by the last consume()
  idx,                 \* position of the for loop in msgs
  log,                 \* calls made in the current run, in order
  raisedBy,            \* the call whose exception left execute ("none" if none)
  runs,                \* number of execute() calls started
  prevLog              \* calls made in the run before the current one

vars == <<pc, commit_cadence_arg, max_messages_arg, max_batch_size_arg,
          commit_cadence, max_messages, max_batch_size, warned,
          messages_left, messages_processed, batch_size, msgs, idx, log,
          raisedBy, runs, prevLog>>

config == <<commit_cadence_arg, max_messages_arg, max_batch_size_arg>>
self == <<commit_cadence, max_messages, max_batch_size, warned>>

\* one call: op in open, poll, apply, commit, close; req the requested count
\* (poll) or the message (apply); got the number of messages returned; left
\* the numeric value of messages_left when the call was made; ok whether it
\* returned normally
Ev(op, req, got, left, ok) == [op |-> op, req |-> req, got |-> got, left |-> left, ok |-> ok]

Init ==
  /\ pc = "init"
  /\ commit_cadence_arg \in CadenceArgs
  /\ max_messages_arg \in MaxMessagesArgs
  /\ max_batch_size_arg \in MaxBatchSizeArgs
  /\ commit_cadence = PyNone
  /\ max_messages = PyNone
  /\ max_batch_size = 0
  /\ warned = FALSE
  /\ messages_left = PyNone
  /\ messages_processed = 0
  /\ batch_size = 0
  /\ msgs = <<>>
  /\ idx = 0
  /\ log = <<>>
  /\ raisedBy = "none"
  /\ runs = 0
  /\ prevLog = <<>>

\* __init__ raising AirflowException (lines 45-48)
ConstructFails ==
  /\ pc = "init"
  /\ CadenceRejected(commit_cadence_arg)
  /\ pc' = "config_error"
  /\ commit_cadence' = commit_cadence_arg
  /\ max_messages' = MaxMessagesOrTrue(max_messages_arg)
  /\ max_batch_size' = max_batch_size_arg
  /\ UNCHANGED <<config, prevLog, warned, messages_left, messages_processed, batch_size,
                 msgs, idx, log, raisedBy, runs>>

\* __init__ returning (lines 32-58)
Construct ==
  /\ pc = "init"
  /\ ~CadenceRejected(commit_cadence_arg)
  /\ pc' = "ready"
  /\ max_messages' = InitMaxMessages(max_messages_arg, max_batch_size_arg)
  /\ max_batch_size' = max_batch_size_arg
  /\ warned' = WarnsBatchLarger(MaxMessagesOrTrue(max_messages_arg), max_batch_size_arg)
  /\ commit_cadence' = NormalizeCadence(commit_cadence_arg)
  /\ UNCHANGED <<config, prevLog, messages_left, messages_processed, batch_size,
                 msgs, idx, log, raisedBy, runs>>

\* execute, lines 62-73: get_consumer(), messages_left, messages_processed
ExecuteStart ==
  /\ pc \in {"ready", "done", "raised"}
  /\ runs < MaxRuns
  /\ runs' = runs + 1
  /\ messages_left' = StartMessagesLeft(max_messages, messages_left)
  /\ messages_processed' = 0
  /\ batch_size' = 0
  /\ msgs' = <<>>
  /\ idx' = 0
  /\ log' = <<Ev("open", 0, 0, 0, TRUE)>>
  /\ raisedBy' = "none"
  /\ prevLog' = log
  /\ pc' = "while"
  /\ UNCHANGED <<config, self>>

\* lines 75-80: the loop test and the batch size
WhileEnter ==
  /\ pc = "while"
  /\ LoopCond(messages_left)
  /\ batch_size' = BatchSize(messages_left, max_batch_size)
  /\ pc' = "poll"
  /\ UNCHANGED <<config, prevLog, self, messages_left, messages_processed, msgs, idx,
                 log, raisedBy, runs>>

WhileExit ==
  /\ pc = "while"
  /\ ~LoopCond(messages_left)
  /\ pc' = "drain"
  /\ UNCHANGED <<config, prevLog, self, messages_left, messages_processed, batch_size,
                 msgs, idx, log, raisedBy, runs>>

\* lines 82-88: consume() returns k messages, 0 <= k <= num_messages
Poll ==
  /\ pc = "poll"
  /\ \E k \in 0..batch_size :
       /\ log' = Append(log, Ev("poll", batch_size, k, messages_left.n, TRUE))
       /\ msgs' = [i \in 1..k |-> messages_processed + i]
       /\ messages_left' = Decrement(messages_left, k)
       /\ messages_processed' = messages_processed + k
       /\ idx' = IF k = 0 THEN 0 ELSE 1
       /\ pc' = IF k = 0 THEN "drain" ELSE "apply"
  /\ UNCHANGED <<config, prevLog, self, batch_size, raisedBy, runs>>

\* line 82: consume() raises
PollRaises ==
  /\ pc = "poll"
  /\ log' = Append(log, Ev("poll", batch_size, 0, messages_left.n, FALSE))
  /\ raisedBy' = "poll"
  /\ pc' = OnConsumerError("poll")
  /\ UNCHANGED <<config, prevLog, self, messages_left, messages_processed, batch_size,
                 msgs, idx, runs>>

\* lines 90-93: apply_callable(m) returns
Apply ==
  /\ pc = "apply"
  /\ log' = Append(log, Ev("apply", msgs[idx], 0, messages_left.n, TRUE))
  /\ idx' = idx + 1
  /\ pc' = AfterApply(idx, Len(msgs), commit_cadence)
  /\ UNCHANGED <<config, prevLog, self, messages_left, messages_processed, batch_size,
                 msgs, raisedBy, runs>>

\* line 91: apply_callable(m) raises
ApplyRaises ==
  /\ pc = "apply"
  /\ log' = Append(log, Ev("apply", msgs[idx], 0, messages_left.n, FALSE))
  /\ raisedBy' = "apply"
  /\ pc' = "raised"
  /\ UNCHANGED <<config, prevLog, self, messages_left, messages_processed, batch_size,
                 msgs, idx, runs>>

\* line 95: consumer.commit() at the end of a batch
BatchCommit ==
  /\ pc = "batch_commit"
  /\ log' = Append(log, Ev("commit", 0, 0, messages_left.n, TRUE))
  /\ pc' = "while"
  /\ UNCHANGED <<config, prevLog, self, messages_left, messages_processed, batch_size,
                 msgs, idx, raisedBy, runs>>

BatchCommitRaises ==
  /\ pc = "batch_commit"
  /\ log' = Append(log, Ev("commit", 0, 0, messages_left.n, FALSE))
  /\ raisedBy' = "commit"
  /\ pc' = OnConsumerError("commit")
  /\ UNCHANGED <<config, prevLog, self, messages_left, messages_processed, batch_size,
                 msgs, idx, runs>>

\* lines 97-99: the commit after the loop
DrainCommit ==
  /\ pc = "drain"
  /\ CommitsAtDrain(commit_cadence)
  /\ log' = Append(log, Ev("commit", 0, 0, messages_left.n, TRUE))
  /\ pc' = "close"
  /\ UNCHANGED <<config, prevLog, self, messages_left, messages_processed, batch_size,
                 msgs, idx, raisedBy, runs>>

DrainCommitRaises ==
  /\ pc = "drain"
  /\ CommitsAtDrain(commit_cadence)
  /\ log' = Append(log, Ev("commit", 0, 0, messages_left.n, FALSE))
  /\ raisedBy' = "commit"
  /\ pc' = OnConsumerError("commit")
  /\ UNCHANGED <<config, prevLog, self, messages_left, messages_processed, batch_size,
                 msgs, idx, runs>>

DrainSkip ==
  /\ pc = "drain"
  /\ ~CommitsAtDrain(commit_cadence)
  /\ pc' = "close"
  /\ UNCHANGED <<config, prevLog, self, messages_left, messages_processed, batch_size,
                 msgs, idx, log, raisedBy, runs>>

\* lines 101-103: consumer.close(), return
Close ==
  /\ pc = "close"
  /\ log' = Append(log, Ev("close", 0, 0, messages_left.n, TRUE))
  /\ pc' = "done"
  /\ UNCHANGED <<config, prevLog, self, messages_left, messages_processed, batch_size,
                 msgs, idx, raisedBy, runs>>

CloseRaises ==
  /\ pc = "close"
  /\ log' = Append(log, Ev("close", 0, 0, messages_left.n, FALSE))
  /\ raisedBy' = "close"
  /\ pc' = OnConsumerError("close")
  /\ UNCHANGED <<config, prevLog, self, messages_left, messages_processed, batch_size,
                 msgs, idx, runs>>

Next ==
  \/ ConstructFails
  \/ Construct
  \/ ExecuteStart
  \/ WhileEnter
  \/ WhileExit
  \/ Poll
  \/ PollRaises
  \/ Apply
  \/ ApplyRaises
  \/ BatchCommit
  \/ BatchCommitRaises
  \/ DrainCommit
  \/ DrainCommitRaises
  \/ DrainSkip
  \/ Close
  \/ CloseRaises

Spec == Init /\ [][Next]_vars

\* the steps of a started execute(): the interpreter runs the method on to its
\* return or to the exception that leaves it
RunStep ==
  \/ WhileEnter \/ WhileExit
  \/ Poll \/ PollRaises
  \/ Apply \/ ApplyRaises
  \/ BatchCommit \/ BatchCommitRaises
  \/ DrainCommit \/ DrainCommitRaises \/ DrainSkip
  \/ Close \/ CloseRaises

FairSpec == Spec /\ WF_vars(RunStep)

\* ---- reading the log ----
OfOp(op) == SelectSeq(log, LAMBDA e : e.op = op)
NumPolls == Len(OfOp("poll"))
NumCommits == Len(OfOp("commit"))
NumCloses == Len(OfOp("close"))
NumApplied == Len(SelectSeq(log, LAMBDA e : e.op = "apply" /\ e.ok))
NonEmptyPolls == SelectSeq(log, LAMBDA e : e.op = "poll" /\ e.ok /\ e.got > 0)
EmptyPolls == SelectSeq(log, LAMBDA e : e.op = "poll" /\ e.ok /\ e.got = 0)
NumNonEmpty == Len(NonEmptyPolls)
Requests == [i \in 1..NumPolls |-> OfOp("poll")[i].req]

RECURSIVE SumGot(_)
SumGot(sq) == IF sq = <<>> THEN 0 ELSE Head(sq).got + SumGot(Tail(sq))

\* number of messages returned by the polls before position i of the log
ReceivedBefore(i) == SumGot(SelectSeq(SubSeq(log, 1, i - 1), LAMBDA e : e.op = "poll"))

Min(a, b) == IF a < b THEN a ELSE b

Unbounded == max_messages_arg = PyNone
Finite == max_messages_arg.tag = "int"
M == max_messages_arg.n
B == max_batch_size_arg
LoopLeft == pc \in {"drain", "close", "done"}

\* C1: with max_messages not configured the loop is left only after a poll
\* that returned zero messages; messages_processed is then the sum of the
\* batch sizes and messages_left still compares equal to the unbounded
\* sentinel it started from.
C1_UnboundedEndsOnlyOnEmptyPoll ==
  (Unbounded /\ LoopLeft) =>
     /\ NumPolls > 0
     /\ OfOp("poll")[NumPolls].got = 0
     /\ messages_processed = SumGot(OfOp("poll"))
     /\ PyEq(messages_left, max_messages)

\* C2: for finite max_messages = M >= max_batch_size = B >= 1 every poll
\* requests B while messages_left >= B and messages_left below that, and a
\* run that ends without an empty poll ends with messages_processed = M.
C2_RequestsAndTotal ==
  (Finite /\ M >= B /\ B >= 1) =>
     /\ \A i \in DOMAIN log :
          log[i].op = "poll" =>
            log[i].req = (IF log[i].left >= B THEN B ELSE log[i].left)
     /\ (pc = "done" /\ EmptyPolls = <<>>) =>
          (messages_processed = M /\ NumApplied = M)

C2_Witness ==
  /\ pc = "done" /\ Finite /\ M = 5 /\ B = 2
  /\ Requests = <<2, 2, 1>>
  /\ messages_processed = 5

\* C3: an explicit max_messages = M >= 0 is a cap: apply_function is applied
\* to at most M messages, and no poll is issued once M messages were received.
C3_MaxMessagesIsCap ==
  (Finite /\ M >= 0) =>
     /\ NumApplied <= M
     /\ \A i \in DOMAIN log : log[i].op = "poll" => ReceivedBefore(i) < M

\* C4: under end_of_batch a run that ends normally has made one commit per
\* non-empty batch plus one at drain; an empty poll adds no in-loop commit.
C4_EndOfBatchCommits ==
  (commit_cadence_arg = PyStr("end_of_batch")) =>
     /\ pc \in {"while", "poll", "drain"} => NumCommits = NumNonEmpty
     /\ pc \in {"close", "done"} => NumCommits = NumNonEmpty + 1

C4_Witness ==
  /\ pc = "done" /\ commit_cadence_arg = PyStr("end_of_batch")
  /\ NumNonEmpty = 2 /\ Len(EmptyPolls) = 1 /\ NumCommits = 3

\* C5: under end_of_operator no commit is made inside the loop, and a run
\* that ends normally has made exactly one commit, after the last poll and
\* the last application and immediately before close().
C5_EndOfOperatorCommitsOnce ==
  (commit_cadence_arg = PyStr("end_of_operator")) =>
     /\ pc \in {"while", "poll", "apply", "batch_commit", "drain"} => NumCommits = 0
     /\ pc = "done" =>
          /\ NumCommits = 1
          /\ Len(log) >= 3
          /\ log[Len(log) - 1].op = "commit"
          /\ log[Len(log)].op = "close"

C5_Witness ==
  /\ pc = "done" /\ commit_cadence_arg = PyStr("end_of_operator")
  /\ NumNonEmpty = 2 /\ NumCommits = 1

C5_WitnessNoBatch ==
  /\ pc = "done" /\ commit_cadence_arg = PyStr("end_of_operator")
  /\ NumNonEmpty = 0 /\ NumCommits = 1

\* C6: under never, commit() is not invoked at any point of a run.
C6_NeverCommits ==
  (commit_cadence_arg = PyStr("never")) => NumCommits = 0

C6_Witness ==
  /\ pc = "done" /\ commit_cadence_arg = PyStr("never")
  /\ NumNonEmpty = 2 /\ NumCommits = 0

\* C7: a commit_cadence outside never, end_of_batch, end_of_operator (None
\* included) makes construction fail: no operator that can run, no Consumer
\* opened, polled, committed or closed.
C7_InvalidCadenceFails ==
  (commit_cadence_arg \notin VALID_COMMIT_CADENCE) =>
     /\ pc \in {"init", "config_error"}
     /\ log = <<>>
     /\ runs = 0
     /\ ~ENABLED ExecuteStart

C7_Witness == pc = "config_error" /\ commit_cadence_arg = PyNone

\* C8: close() is invoked exactly once on every exit path of a run.
C8_ClosedOnEveryExit ==
  pc \in {"done", "raised"} => NumCloses = 1

\* C9: when apply_function raises, the failing application is the last call
\* of the run (no later application, poll, commit or close), and the commits
\* made are one per batch fully applied before under end_of_batch, none
\* under end_of_operator and never.
C9_ApplyFailureAborts ==
  (raisedBy = "apply") =>
     /\ pc = "raised"
     /\ log[Len(log)].op = "apply" /\ ~log[Len(log)].ok
     /\ \A i \in 1..(Len(log) - 1) : log[i].ok
     /\ NumCommits = (IF commit_cadence_arg = PyStr("end_of_batch")
                        THEN NumNonEmpty - 1 ELSE 0)

C9_Witness ==
  /\ raisedBy = "apply" /\ commit_cadence_arg = PyStr("end_of_batch")
  /\ NumNonEmpty = 2 /\ NumCommits = 1
  /\ Len(msgs) = 2 /\ idx = 2

C9_WitnessOperator ==
  /\ raisedBy = "apply" /\ commit_cadence_arg = PyStr("end_of_operator")
  /\ NumNonEmpty = 2

LastPollAt ==
  IF NumPolls = 0 THEN 0
  ELSE CHOOSE i \in DOMAIN log :
         log[i].op = "poll" /\ \A j \in DOMAIN log : (j > i => log[j].op # "poll")

\* the calls made after position i of the log
After(i) == SubSeq(log, i + 1, Len(log))

\* C11: after a poll that returned zero messages nothing is applied, no
\* further poll is issued, messages_left and messages_processed have the
\* values they had before that poll, and the only calls that follow are the
\* drain commit (unless the cadence is never) and then close().
C11_EmptyPollGoesToDrain ==
  (LastPollAt > 0 /\ log[LastPollAt].ok /\ log[LastPollAt].got = 0) =>
     /\ pc \in {"drain", "close", "done", "raised"}
     /\ messages_left.n = log[LastPollAt].left
     /\ messages_processed = ReceivedBefore(LastPollAt)
     /\ LET tail == After(LastPollAt)
            ops == [i \in DOMAIN tail |-> tail[i].op]
            committing == commit_cadence_arg # PyStr("never")
        IN /\ pc = "drain" => ops = <<>>
           /\ pc = "close" => ops = (IF committing THEN <<"commit">> ELSE <<>>)
           /\ pc = "done" => ops = (IF committing THEN <<"commit", "close">> ELSE <<"close">>)
           /\ pc = "raised" => ops \in {<<"commit">>, <<"close">>, <<"commit", "close">>}

C11_Witness ==
  /\ pc = "done" /\ commit_cadence_arg = PyStr("end_of_batch")
  /\ NumNonEmpty = 1 /\ Len(EmptyPolls) = 1
  /\ messages_left.n = 2 /\ messages_processed = 1

\* the messages apply_function returned normally for, in call order, among the first i calls
AppliedIn(i) ==
  LET a == SelectSeq(SubSeq(log, 1, i), LAMBDA e : e.op = "apply" /\ e.ok)
  IN [j \in DOMAIN a |-> a[j].req]

\* the messages returned by the polls among the first i calls, in poll order
\* (the k-th message a run receives is message k)
PolledIn(i) == [j \in 1..ReceivedBefore(i + 1) |-> j]

\* C12: at every commit() call, in-loop or final, every message returned by
\* the polls so far has been applied and that application returned normally.
C12_CommitOnlyAfterApplied ==
  \A i \in DOMAIN log :
     log[i].op = "commit" => AppliedIn(i) = PolledIn(i)

C12_Witness ==
  /\ commit_cadence_arg = PyStr("end_of_batch")
  /\ NumCommits = 2 /\ pc = "while"
  /\ messages_processed = 3
  /\ AppliedIn(Len(log)) = <<1, 2, 3>>

\* number of calls among the first i matching op
CountIn(i, op) == Len(SelectSeq(SubSeq(log, 1, i), LAMBDA e : e.op = op))
NonEmptyIn(i) == Len(SelectSeq(SubSeq(log, 1, i), LAMBDA e : e.op = "poll" /\ e.ok /\ e.got > 0))

\* C13: when a poll is issued every earlier batch has been applied completely,
\* once per message and in poll order (and committed, under end_of_batch);
\* over a normal run the applied messages are the concatenation of the
\* polled batches.
C13_BatchesAppliedInOrder ==
  /\ \A i \in DOMAIN log :
       log[i].op = "poll" =>
         /\ AppliedIn(i - 1) = PolledIn(i - 1)
         /\ commit_cadence_arg = PyStr("end_of_batch") =>
              CountIn(i - 1, "commit") = NonEmptyIn(i - 1)
  /\ pc = "done" =>
       /\ AppliedIn(Len(log)) = PolledIn(Len(log))
       /\ Len(AppliedIn(Len(log))) = messages_processed

C13_Witness ==
  /\ pc = "done" /\ commit_cadence_arg = PyStr("end_of_batch")
  /\ NumNonEmpty = 2 /\ messages_processed = 4
  /\ AppliedIn(Len(log)) = <<1, 2, 3, 4>>

\* C14: the count a poll is about to request is max_batch_size when
\* messages_left is the unbounded sentinel and min(max_batch_size,
\* messages_left) otherwise, also after short batches; with
\* max_batch_size >= 1 every request is between 1 and max_batch_size.
C14_RequestedCount ==
  /\ pc = "poll" =>
       batch_size = (IF IsInstanceBool(messages_left)
                       THEN max_batch_size
                       ELSE Min(max_batch_size, messages_left.n))
  /\ \A i \in DOMAIN log :
       (log[i].op = "poll" /\ max_messages.tag = "int") =>
          log[i].req = Min(B, log[i].left)
  /\ B >= 1 =>
       /\ pc = "poll" => (1 <= batch_size /\ batch_size <= B)
       /\ \A i \in DOMAIN log :
            log[i].op = "poll" => (1 <= log[i].req /\ log[i].req <= B)

\* a poll about to be made after a batch shorter than requested
C14_Witness ==
  /\ pc = "poll" /\ Finite /\ M = 5 /\ B = 3
  /\ NumPolls = 1 /\ OfOp("poll")[1].req = 3 /\ OfOp("poll")[1].got = 1
  /\ batch_size = 3

C14_WitnessUnbounded ==
  /\ pc = "poll" /\ Unbounded /\ B = 3 /\ batch_size = 3

\* C15: with a finite cap M >= 1 and max_batch_size >= 1 a run makes at most
\* M polls, and a started run always reaches the return of execute unless a
\* call raised.
C15_Terminates ==
  /\ []((Finite /\ M >= 1 /\ B >= 1) => NumPolls <= M)
  /\ ((pc = "while" /\ Finite /\ M >= 1 /\ B >= 1) ~> (pc = "done" \/ raisedBy # "none"))

\* M polls, none of them empty, and the run has returned
C15_Witness ==
  /\ pc = "done" /\ Finite /\ M = 3 /\ B = 1
  /\ NumPolls = 3 /\ EmptyPolls = <<>>

\* C16: when poll or commit raises, that call is the last one of the run: it
\* is not invoked again and no poll, application or commit follows it.
C16_ConsumerFailurePropagates ==
  (raisedBy \in {"poll", "commit"}) =>
     /\ pc = "raised"
     /\ log[Len(log)].op = raisedBy /\ ~log[Len(log)].ok
     /\ \A i \in 1..(Len(log) - 1) : log[i].ok

C16_Witness ==
  /\ raisedBy = "poll" /\ pc = "raised"
  /\ NumPolls = 2 /\ NumApplied = 1

C16_WitnessCommit ==
  /\ raisedBy = "commit" /\ pc = "raised"
  /\ commit_cadence_arg = PyStr("end_of_batch") /\ NumCommits = 2

\* the first i calls of the current run and of the previous one are the same,
\* results included
SameUpTo(i) == \A j \in 1..i : log[j] = prevLog[j]

Committing == commit_cadence_arg \in {PyStr("end_of_batch"), PyStr("end_of_operator")}

\* C18: a negative max_messages (with a valid cadence) is accepted by the
\* constructor; the run then makes no poll and applies nothing, commits
\* exactly once at drain under end_of_batch and end_of_operator (not at all
\* under never), and calls close() once.
C18_NegativeCapDegenerate ==
  (Finite /\ M < 0 /\ ~CadenceRejected(commit_cadence_arg) /\ pc # "init") =>
     /\ pc # "config_error"
     /\ max_messages = PyInt(M)
     /\ NumPolls = 0
     /\ NumApplied = 0
     /\ pc \notin {"poll", "apply", "batch_commit"}
     /\ pc \in {"close", "done"} => NumCommits = (IF Committing THEN 1 ELSE 0)
     /\ pc = "done" => (NumCloses = 1 /\ log[Len(log)].op = "close")

C18_Witness ==
  /\ Finite /\ M < 0 /\ pc = "done"
  /\ commit_cadence_arg = PyStr("end_of_batch")
  /\ [i \in DOMAIN log |-> log[i].op] = <<"open", "commit", "close">>

\* C19: with a finite cap M >= 1, during a run messages_left >= 0 and
\* messages_left + messages_processed = M, and messages_processed never
\* decreases within a run.
C19_CountersInvariant ==
  /\ [](( Finite /\ M >= 1 /\ runs >= 1) =>
          /\ messages_left.n >= 0
          /\ messages_left.n + messages_processed = M)
  /\ [][(Finite /\ M >= 1 /\ runs' = runs) => messages_processed' >= messages_processed]_vars

C19_Witness ==
  /\ Finite /\ M = 5 /\ pc = "while"
  /\ messages_left.n = 2 /\ messages_processed = 3 /\ NumPolls = 2

\* C20: on a run that returns normally close() was called exactly once and is
\* the last call of the run, so no poll or commit follows it; under
\* end_of_batch and end_of_operator the call before it is the drain commit.
C20_CloseIsLast ==
  pc = "done" =>
     /\ NumCloses = 1
     /\ log[Len(log)].op = "close"
     /\ \A i \in 1..(Len(log) - 1) : log[i].op # "close"
     /\ Committing =>
          /\ log[Len(log) - 1].op = "commit"
          /\ \A i \in 1..(Len(log) - 2) : log[i].op \in {"open", "poll", "apply", "commit"}

\* ended by an empty poll, so the commit before close() is the drain commit
C20_Witness ==
  /\ pc = "done" /\ commit_cadence_arg = PyStr("end_of_batch")
  /\ Len(EmptyPolls) = 1 /\ NumNonEmpty = 1
  /\ log[Len(log) - 2].op = "poll"

====
